---- MODULE Spec2Model ----
(***************************************************************************)
(* ghopper (src/ghopper/cli.py): a command line tool that keeps a JSON     *)
(* registry of repository aliases and shells out to git.                   *)
(*                                                                         *)
(* Text is modelled as a sequence of one-character strings, so that the    *)
(* string processing of normalize_repo_url is computed, not assumed.       *)
(* Four specifications share the module:                                   *)
(*   SpecNorm   - normalize_repo_url, add's stored URL and reverse lookup  *)
(*   SpecCommit - the commit handler, one step per git invocation          *)
(*   Spec       - the registry commands run one after the other            *)
(*   SpecRace   - two mutating invocations racing on the config file       *)
(***************************************************************************)
EXTENDS Integers, Sequences, FiniteSets, TLC

VARIABLES
    \* SpecNorm
    nphase, nraw, nalias, nkey, nconfig, nfound,
    \* SpecCommit
    pc, gitlog, echo, outcome, last_commit_hash, current_branch, target_idx,
    pushed, conflict, prompted,
    \* Spec: the config file, and the last command run
    file, prior, cmd, args, result,
    \* SpecRace: two invocations sharing the config file
    rpc, rcmd, rmem, rsay, events

normVars == <<nphase, nraw, nalias, nkey, nconfig, nfound>>
commitVars == <<pc, gitlog, echo, outcome, last_commit_hash, current_branch,
                target_idx, pushed, conflict, prompted>>
cliVars == <<file, prior, cmd, args, result>>
raceVars == <<rpc, rcmd, rmem, rsay, events>>
vars == <<normVars, commitVars, cliVars, raceVars>>
notNormVars == <<commitVars, cliVars, raceVars>>
notCommitVars == <<normVars, cliVars, raceVars>>

----------------------------------------------------------------------------
(* Python values *)

\* Python's None where a str is expected (a str is a sequence of characters).
None == << "<None>" >>
\* Python truthiness of an Optional[str]: None and "" are falsy.
Falsy(x) == x = None \/ x = <<>>

UpperChars == <<"A","B","C","D","E","F","G","H","I","J","K","L","M","N","O","P","Q","R","S","T","U","V","W","X","Y","Z">>
LowerChars == <<"a","b","c","d","e","f","g","h","i","j","k","l","m","n","o","p","q","r","s","t","u","v","w","x","y","z">>
Digits == {"0","1","2","3","4","5","6","7","8","9"}
Range(s) == {s[i] : i \in DOMAIN s}
Letters == Range(UpperChars) \cup Range(LowerChars)
Whitespace == {" ", "\t", "\n"}

\* str.lower()
LowerChar(c) ==
    IF c \in Range(UpperChars)
    THEN LowerChars[CHOOSE i \in DOMAIN UpperChars : UpperChars[i] = c]
    ELSE c
lower(s) == [i \in DOMAIN s |-> LowerChar(s[i])]

\* str.startswith / str.endswith
startswith(s, p) == Len(s) >= Len(p) /\ SubSeq(s, 1, Len(p)) = p
endswith(s, p) == Len(s) >= Len(p) /\ SubSeq(s, Len(s) - Len(p) + 1, Len(s)) = p

\* 1 + str.find for a set of characters: the first position holding one of C, 0 if none.
FirstIn(s, C) ==
    IF \E i \in DOMAIN s : s[i] \in C
    THEN CHOOSE i \in DOMAIN s : s[i] \in C /\ \A j \in 1..(i - 1) : s[j] \notin C
    ELSE 0
\* The last position holding a character outside C, 0 if none.
LastNotIn(s, C) ==
    IF \E i \in DOMAIN s : s[i] \notin C
    THEN CHOOSE i \in DOMAIN s : s[i] \notin C /\ \A j \in (i + 1)..Len(s) : s[j] \in C
    ELSE 0
\* The length of the longest prefix of s made of characters of C.
RunLen(s, C) ==
    IF \E i \in DOMAIN s : s[i] \notin C
    THEN (CHOOSE i \in DOMAIN s : s[i] \notin C /\ \A j \in 1..(i - 1) : s[j] \in C) - 1
    ELSE Len(s)

\* str.strip(chars)
stripChars(s, C) ==
    IF LastNotIn(s, C) = 0 THEN <<>>
    ELSE SubSeq(s, RunLen(s, C) + 1, LastNotIn(s, C))
\* str.strip()
strip(s) == stripChars(s, Whitespace)

\* s.split(c)[0]
splitFirst(s, c) ==
    IF FirstIn(s, {c}) = 0 THEN s ELSE SubSeq(s, 1, FirstIn(s, {c}) - 1)

\* s.split(c)
RECURSIVE split(_, _)
split(s, c) ==
    IF FirstIn(s, {c}) = 0 THEN <<s>>
    ELSE <<SubSeq(s, 1, FirstIn(s, {c}) - 1)>>
         \o split(SubSeq(s, FirstIn(s, {c}) + 1, Len(s)), c)

\* s.replace(old, "")
RECURSIVE replaceWithEmpty(_, _)
replaceWithEmpty(s, old) ==
    IF Len(s) < Len(old) \/ old = <<>> THEN s
    ELSE IF startswith(s, old)
         THEN replaceWithEmpty(SubSeq(s, Len(old) + 1, Len(s)), old)
         ELSE <<s[1]>> \o replaceWithEmpty(Tail(s), old)

\* pathlib.Path(s).name: the last component, "" when there is none. Empty
\* and "." components are dropped when the path is parsed.
PathName(s) ==
    LET isPart(x) == x # <<>> /\ x # <<".">>
        parts == SelectSeq(split(s, "/"), isPart)
    IN IF parts = <<>> THEN <<>> ELSE parts[Len(parts)]

----------------------------------------------------------------------------
(* normalize_repo_url *)

GIT_AT == <<"g","i","t","@">>
DOT_GIT == <<".","g","i","t">>
HTTP == <<"h","t","t","p">>
HTTPS_PREFIX == <<"h","t","t","p","s",":","/","/">>

\* \w of the regular expression, on ASCII text
WordChars == Letters \cup Digits \cup {"_"}
\* [\w.-] and [\w./-]
HostChars == WordChars \cup {".", "-"}
PathChars == WordChars \cup {".", "/", "-"}
\* the characters urlsplit allows in a scheme
SchemeChars == Letters \cup Digits \cup {"+", "-", "."}

\* re.match(r"git@([\w.-]+):([\w./-]+)", url): both groups are greedy, and
\* since ':' is in neither class no backtracking changes the groups. The
\* match is anchored at the start only. Answers None or <<host, path>>.
ssh_match(url) ==
    LET rest == SubSeq(url, Len(GIT_AT) + 1, Len(url))
        hostLen == RunLen(rest, HostChars)
        afterColon == SubSeq(rest, hostLen + 2, Len(rest))
        pathLen == RunLen(afterColon, PathChars)
    IN IF /\ startswith(url, GIT_AT)
          /\ hostLen >= 1
          /\ Len(rest) >= hostLen + 1
          /\ rest[hostLen + 1] = ":"
          /\ pathLen >= 1
       THEN <<SubSeq(rest, 1, hostLen), SubSeq(afterColon, 1, pathLen)>>
       ELSE None

\* urllib.parse.urlparse(url), its netloc and path: the scheme is the text
\* before the first ':' when that text is a letter followed by scheme
\* characters; a netloc follows '//' and ends at the first of '/', '?', '#';
\* the path ends at the first '?' or '#'.
urlparse(url) ==
    LET i == FirstIn(url, {":"})
        hasScheme == /\ i > 1
                     /\ url[1] \in Letters
                     /\ \A k \in 1..(i - 1) : url[k] \in SchemeChars
        rest == IF hasScheme THEN SubSeq(url, i + 1, Len(url)) ELSE url
        hasNetloc == startswith(rest, <<"/", "/">>)
        afterSlashes == SubSeq(rest, 3, Len(rest))
        d == FirstIn(afterSlashes, {"/", "?", "#"})
        netloc == IF ~hasNetloc THEN <<>>
                  ELSE IF d = 0 THEN afterSlashes ELSE SubSeq(afterSlashes, 1, d - 1)
        rest2 == IF ~hasNetloc THEN rest
                 ELSE IF d = 0 THEN <<>> ELSE SubSeq(afterSlashes, d, Len(afterSlashes))
        q == FirstIn(rest2, {"?", "#"})
    IN [netloc |-> netloc,
        path |-> IF q = 0 THEN rest2 ELSE SubSeq(rest2, 1, q - 1)]

\* lines 49-50
strip_dot_git(url) ==
    IF endswith(url, DOT_GIT) THEN SubSeq(url, 1, Len(url) - 4) ELSE url
\* lines 54-57, m the match object; without a match control falls to line 64
normalize_ssh(url, m) ==
    IF m # None
    THEN lower(splitFirst(m[1], "-") \o <<"/">> \o m[2])
    ELSE lower(url)
\* normalize_http without the strip of '/' and without the host de-aliasing
normalize_http_plain(parsed) == lower(splitFirst(parsed.netloc, ":") \o parsed.path)
\* lines 61-62
normalize_http(parsed) ==
    lower(stripChars(splitFirst(splitFirst(parsed.netloc, ":"), "-") \o parsed.path,
                     {"/"}))
\* lines 52-64, url stripped of white space and of one ".git"
normalize_form(url) ==
    IF startswith(url, GIT_AT) THEN normalize_ssh(url, ssh_match(url))
    ELSE IF startswith(url, HTTP) THEN normalize_http(urlparse(url))
    ELSE lower(url)

normalize_repo_url(url) == normalize_form(strip_dot_git(strip(url)))

----------------------------------------------------------------------------
(* The registry: config["repos"], a dict, which keeps insertion order. It  *)
(* is a sequence of entries, each alias at most once.                      *)

Slots == {"prod", "pre", "dev"}
\* dict.get on a missing key, for a branch name (a plain string)
NoBranch == "<None>"
\* {k: v for k, v in {...}.items() if v}
BranchesOf(prod, pre, dev) ==
    LET given == [s \in Slots |-> IF s = "prod" THEN prod ELSE IF s = "pre" THEN pre ELSE dev]
    IN [s \in {x \in Slots : given[x] # NoBranch /\ given[x] # ""} |-> given[s]]
\* repo["branches"].get(key)
BranchGet(branches, key) == IF key \in DOMAIN branches THEN branches[key] ELSE NoBranch

HasAlias(repos, alias) == \E i \in DOMAIN repos : repos[i].alias = alias
IndexOf(repos, alias) == CHOOSE i \in DOMAIN repos : repos[i].alias = alias
\* config["repos"][alias] = entry: in place when the key exists, else appended
Put(repos, entry) ==
    IF HasAlias(repos, entry.alias)
    THEN [repos EXCEPT ![IndexOf(repos, entry.alias)] = entry]
    ELSE Append(repos, entry)
\* Delete with its test inverted: every other alias goes
Delete_others(repos, alias) == SelectSeq(repos, LAMBDA e : e.alias = alias)
\* del config["repos"][alias]
Delete(repos, alias) == SelectSeq(repos, LAMBDA e : e.alias # alias)

\* lines 69-72: the first alias, in the dict's order, whose stored url has
\* the key normalized; keys[i] is the key of the i-th entry
first_alias_with_key(repos, keys, normalized) ==
    IF \E i \in DOMAIN keys : keys[i] = normalized
    THEN repos[CHOOSE i \in DOMAIN keys :
                   keys[i] = normalized /\ \A j \in 1..(i - 1) : keys[j] # normalized].alias
    ELSE None

\* find_alias_by_repo_url comparing the remote as git printed it
find_alias_by_raw_url(repos, repo_url) ==
    first_alias_with_key(repos,
                         [i \in DOMAIN repos |-> normalize_repo_url(repos[i].url)],
                         repo_url)
find_alias_by_repo_url(repos, repo_url) ==
    first_alias_with_key(repos,
                         [i \in DOMAIN repos |-> normalize_repo_url(repos[i].url)],
                         normalize_repo_url(repo_url))

\* lines 170-177, normalized_url given
entry_for(alias, normalized_url, branches) ==
    [alias |-> IF Falsy(alias)
               THEN replaceWithEmpty(PathName(normalized_url), DOT_GIT)
               ELSE alias,
     url |-> HTTPS_PREFIX \o normalized_url,
     branches |-> branches]
\* add, lines 168-177: the entry add stores for a truthy url
add_entry(alias, url, prod, pre, dev) ==
    entry_for(alias, normalize_repo_url(url), BranchesOf(prod, pre, dev))

----------------------------------------------------------------------------
(* SpecNorm: the normalizer, add's stored URL and the reverse lookup, on a *)
(* bounded set of raw remote URLs.                                         *)

h_github == <<"g","i","t","h","u","b",".","c","o","m">>
h_github_alias == <<"g","i","t","h","u","b",".","c","o","m","-","a","l","i","a","s">>
h_GitHub == <<"G","i","t","H","u","b",".","c","o","m">>
h_github_port == <<"g","i","t","h","u","b",".","c","o","m",":","4","4","3">>
p_org_repo == <<"o","r","g","/","r","e","p","o">>
p_Org_Repo == <<"O","r","g","/","R","e","p","o">>
p_my_org == <<"m","y","-","o","r","g","/","r","e","p","o">>
s_http_scheme == <<"h","t","t","p",":","/","/">>
s_HTTPS_scheme == <<"H","T","T","P","S",":","/","/">>
a_foo == <<"f","o","o">>
a_bar == <<"b","a","r">>

UrlPaths == {p_org_repo, p_Org_Repo, p_my_org}
UrlSuffixes == {<<>>, DOT_GIT, <<"/">>}
SshUrls ==
    {GIT_AT \o h \o <<":">> \o p \o s :
        h \in {h_github, h_github_alias, h_GitHub}, p \in UrlPaths, s \in UrlSuffixes}
HttpUrls ==
    {sch \o h \o <<"/">> \o p \o s :
        sch \in {HTTPS_PREFIX, s_http_scheme, s_HTTPS_scheme},
        h \in {h_github, h_github_alias, h_GitHub, h_github_port},
        p \in UrlPaths, s \in UrlSuffixes}
FallbackUrls ==
    {h \o <<"/">> \o p \o s :
        h \in {h_github, h_github_alias}, p \in UrlPaths, s \in UrlSuffixes}
RawUrls == SshUrls \cup HttpUrls \cup FallbackUrls

\* a registry add may find on disk: empty, or one entry of another repository
OtherEntry ==
    [alias |-> a_bar,
     url |-> HTTPS_PREFIX \o h_github \o <<"/">> \o p_my_org,
     branches |-> BranchesOf("main", NoBranch, NoBranch)]
NormRegistries == {<<>>, <<OtherEntry>>}

\* normalized_url = normalize_repo_url(url)
NormNormalize ==
    /\ nphase = "input"
    /\ nkey' = normalize_repo_url(nraw)
    /\ nphase' = "normalized"
    /\ UNCHANGED <<nraw, nalias, nconfig, nfound, notNormVars>>

\* config["repos"][alias] = {"url": f"https://{normalized_url}", ...}
NormAdd ==
    /\ nphase = "normalized"
    /\ nconfig' = Put(nconfig, add_entry(nalias, nraw, NoBranch, NoBranch, NoBranch))
    /\ nphase' = "added"
    /\ UNCHANGED <<nraw, nalias, nkey, nfound, notNormVars>>

\* find_alias_by_repo_url(config, repo_url) with the same remote
NormLookup ==
    /\ nphase = "added"
    /\ nfound' = find_alias_by_repo_url(nconfig, nraw)
    /\ nphase' = "looked"
    /\ UNCHANGED <<nraw, nalias, nkey, nconfig, notNormVars>>

NormNext == NormNormalize \/ NormAdd \/ NormLookup
\* Claims about the normalizer

CanonicalKey == <<"g","i","t","h","u","b",".","c","o","m","/","o","r","g","/","r","e","p","o">>
\* git@github.com:org/repo.git, git@github.com-alias:org/repo,
\* https://github.com/org/repo, https://github.com/org/repo.git,
\* http://github.com:443/org/repo/
form_ssh_git == GIT_AT \o h_github \o <<":">> \o p_org_repo \o DOT_GIT
form_ssh_alias == GIT_AT \o h_github_alias \o <<":">> \o p_org_repo
form_https == HTTPS_PREFIX \o h_github \o <<"/">> \o p_org_repo
form_https_git == HTTPS_PREFIX \o h_github \o <<"/">> \o p_org_repo \o DOT_GIT
form_http_port == s_http_scheme \o h_github_port \o <<"/">> \o p_org_repo \o <<"/">>
FiveForms == {form_ssh_git, form_ssh_alias, form_https, form_https_git, form_http_port}

\* C7: normalize_repo_url maps each of the five remote forms to the key
\* github.com/org/repo.
C7_NormalizationEquivalence ==
    (nphase # "input" /\ nraw \in FiveForms) => nkey = CanonicalKey
C7_Witness ==
    /\ nphase = "normalized"
    /\ nraw = form_http_port
    /\ nkey = CanonicalKey

\* C8 (as claimed): for every raw url add accepts, the url add stores,
\* "https://" followed by the key of the raw url, normalizes to that same key,
\* and after the add a reverse lookup with the raw url as the remote finds an
\* alias whose entry has that key.
C8_AddThenLookupFinds ==
    nphase = "looked" =>
        /\ normalize_repo_url(HTTPS_PREFIX \o nkey) = nkey
        /\ nfound # None
        /\ HasAlias(nconfig, nfound)
        /\ normalize_repo_url(nconfig[IndexOf(nconfig, nfound)].url) = nkey

----------------------------------------------------------------------------
(* SpecCommit: the commit handler. git is an external process: each        *)
(* invocation exits 0 or non-zero as the environment decides, and one step *)
(* of the model is one invocation together with the handler's reaction.    *)
(* outcome: "running"; "failed", a message was printed and the handler     *)
(* returned; "crashed", a CalledProcessError left the handler uncaught;    *)
(* "success", the final report was printed.                                *)

ExitCodes == {0, 1}
Messages == {"fix"}
\* what `git log -n 1 --pretty=format:%H` and `git symbolic-ref --short HEAD` print
Hashes == {"c0ffee"}
BranchNames == {"TICKET-1", "feature"}
\* what the user may type at the prompt
y == <<"y">>
PromptAnswers == {<<"y">>, <<"Y">>, <<"n">>, <<"N">>, <<"y", "e", "s">>}

dev_branch == current_branch \o "-dev"
pre_branch == current_branch \o "-pre-merge"
target_branches == <<dev_branch, pre_branch>>
target == target_branches[target_idx]

Invoke(argv, rc) == gitlog' = Append(gitlog, [argv |-> argv, rc |-> rc])
Say(msg) == echo' = Append(echo, msg)

\* `return` after a printed message
ReturnFailed ==
    /\ outcome' = "failed"
    /\ pc' = "done"
\* a subprocess.CalledProcessError no try block of the handler encloses
Uncaught ==
    /\ outcome' = "crashed"
    /\ pc' = "done"
    /\ UNCHANGED echo
\* except subprocess.CalledProcessError of the loop body, lines 333-335
CherryPickFailed ==
    /\ Say("Failed to cherry-pick")
    /\ ReturnFailed
\* the for loop's next iteration, or the statement after the loop
NextTarget ==
    IF target_idx < Len(target_branches)
    THEN target_idx' = target_idx + 1 /\ pc' = "checkout_target"
    ELSE target_idx' = target_idx /\ pc' = "restore"

\* lines 266-271
commit_git_commit ==
    /\ pc = "git_commit"
    /\ \E message \in Messages, rc \in ExitCodes :
        /\ Invoke(<<"git", "commit", "-m", message>>, rc)
        /\ IF rc = 0
           THEN Say("Committed changes") /\ pc' = "git_log" /\ UNCHANGED outcome
           ELSE Say("Commit failed") /\ ReturnFailed
    /\ UNCHANGED <<last_commit_hash, current_branch, target_idx, pushed, conflict,
                   prompted, notCommitVars>>

\* lines 274-276
commit_git_log ==
    /\ pc = "git_log"
    /\ \E rc \in ExitCodes, out \in Hashes :
        /\ Invoke(<<"git", "log", "-n", "1", "--pretty=format:%H">>, rc)
        /\ IF rc = 0
           THEN /\ last_commit_hash' = out
                /\ pc' = "symbolic_ref"
                /\ UNCHANGED <<outcome, echo>>
           ELSE Uncaught /\ UNCHANGED last_commit_hash
    /\ UNCHANGED <<current_branch, target_idx, pushed, conflict, prompted, notCommitVars>>

\* lines 279-288
commit_symbolic_ref ==
    /\ pc = "symbolic_ref"
    /\ \E rc \in ExitCodes, out \in BranchNames :
        /\ Invoke(<<"git", "symbolic-ref", "--short", "HEAD">>, rc)
        /\ IF rc = 0
           THEN /\ current_branch' = out
                /\ target_idx' = 1
                /\ pc' = "checkout_target"
                /\ UNCHANGED <<outcome, echo>>
           ELSE Uncaught /\ UNCHANGED <<current_branch, target_idx>>
    /\ UNCHANGED <<last_commit_hash, pushed, conflict, prompted, notCommitVars>>

\* checkout_failed without its `return`: the handler goes on to the cherry-pick
checkout_failed_no_return ==
    /\ echo' = echo \o <<"Cherry-picking commit", "branch does not exist">>
    /\ pc' = "cherry_pick"
    /\ UNCHANGED outcome

\* lines 297-299: the target branch could not be checked out
checkout_failed ==
    /\ echo' = echo \o <<"Cherry-picking commit", "branch does not exist">>
    /\ ReturnFailed

\* lines 292-299
commit_checkout_target ==
    /\ pc = "checkout_target"
    /\ \E rc \in ExitCodes :
        /\ Invoke(<<"git", "checkout", target>>, rc)
        /\ IF rc = 0
           THEN Say("Cherry-picking commit") /\ pc' = "cherry_pick" /\ UNCHANGED outcome
           ELSE checkout_failed
    /\ UNCHANGED <<last_commit_hash, current_branch, target_idx, pushed, conflict,
                   prompted, notCommitVars>>

\* line 301. git cherry-pick exits 0 when it applied the commit and non-zero
\* otherwise: on a conflict (the paths are left unmerged, which git status
\* shows as "both modified") or on any other error.
commit_cherry_pick ==
    /\ pc = "cherry_pick"
    /\ \E how \in {"applied", "conflict", "error"} :
        /\ Invoke(<<"git", "cherry-pick", last_commit_hash>>,
                  IF how = "applied" THEN 0 ELSE 1)
        /\ conflict' = IF how = "conflict" THEN conflict \cup {target} ELSE conflict
        /\ IF how = "applied"
           THEN pc' = "status" /\ UNCHANGED <<outcome, echo>>
           ELSE CherryPickFailed
    /\ UNCHANGED <<last_commit_hash, current_branch, target_idx, pushed, prompted,
                   notCommitVars>>

\* lines 304-306. The text git status prints is the environment's: it may
\* hold "both modified" after a cherry-pick that exited 0 (the name of an
\* untracked file, paths left unmerged by earlier work).
commit_status ==
    /\ pc = "status"
    /\ \E rc \in ExitCodes, both_modified \in BOOLEAN :
        /\ Invoke(<<"git", "status">>, rc)
        /\ IF rc # 0 THEN CherryPickFailed
           ELSE IF both_modified
                THEN Say("Conflict detected") /\ pc' = "prompt" /\ UNCHANGED outcome
                ELSE pc' = "push" /\ UNCHANGED <<outcome, echo>>
    /\ UNCHANGED <<last_commit_hash, current_branch, target_idx, pushed, conflict,
                   prompted, notCommitVars>>

\* lines 309-329
commit_prompt ==
    /\ pc = "prompt"
    /\ \E answer \in PromptAnswers :
        LET resolve_choice == lower(answer)
        IN IF resolve_choice = y
           THEN Say("Resolving conflicts automatically") /\ pc' = "checkout_theirs"
                /\ UNCHANGED outcome
           ELSE Say("Aborted. Please resolve conflicts manually") /\ ReturnFailed
    /\ prompted' = prompted \cup {target}
    /\ UNCHANGED <<gitlog, last_commit_hash, current_branch, target_idx, pushed,
                   conflict, notCommitVars>>

\* a check_call inside the loop's try block that only moves on: lines 317, 318, 321
ResolveStep(at, argv, next) ==
    /\ pc = at
    /\ \E rc \in ExitCodes :
        /\ Invoke(argv, rc)
        /\ IF rc = 0 THEN pc' = next /\ UNCHANGED <<outcome, echo>>
           ELSE CherryPickFailed
    /\ UNCHANGED <<last_commit_hash, current_branch, target_idx, pushed, conflict,
                   prompted, notCommitVars>>
commit_checkout_theirs ==
    ResolveStep("checkout_theirs", <<"git", "checkout", "--theirs", ".">>, "add")
commit_add == ResolveStep("add", <<"git", "add", ".">>, "commit_no_edit")
commit_commit_no_edit ==
    ResolveStep("commit_no_edit", <<"git", "commit", "--no-edit">>, "push_resolved")

\* lines 322-325 (the resolved path) and 331-332 (the clean path)
PushStep(at, msg) ==
    /\ pc = at
    /\ \E rc \in ExitCodes :
        /\ Invoke(<<"git", "push", "origin", target>>, rc)
        /\ IF rc = 0
           THEN /\ pushed' = pushed \cup {target}
                /\ Say(msg)
                /\ NextTarget
                /\ UNCHANGED outcome
           ELSE CherryPickFailed /\ UNCHANGED <<pushed, target_idx>>
    /\ UNCHANGED <<last_commit_hash, current_branch, conflict, prompted, notCommitVars>>
commit_push_resolved == PushStep("push_resolved", "Conflict resolved and changes pushed")
\* commit_push with the push's exit code ignored (subprocess.call for check_call)
commit_push_unchecked ==
    /\ pc = "push"
    /\ \E rc \in ExitCodes :
        /\ Invoke(<<"git", "push", "origin", target>>, rc)
        /\ pushed' = IF rc = 0 THEN pushed \cup {target} ELSE pushed
        /\ Say("Successfully cherry-picked and pushed")
        /\ NextTarget
        /\ UNCHANGED outcome
    /\ UNCHANGED <<last_commit_hash, current_branch, conflict, prompted, notCommitVars>>
commit_push == PushStep("push", "Successfully cherry-picked and pushed")

\* lines 338-339
commit_restore ==
    /\ pc = "restore"
    /\ \E rc \in ExitCodes :
        /\ Invoke(<<"git", "checkout", current_branch>>, rc)
        /\ IF rc = 0
           THEN Say("Cherry-pick complete") /\ outcome' = "success" /\ pc' = "done"
           ELSE Uncaught
    /\ UNCHANGED <<last_commit_hash, current_branch, target_idx, pushed, conflict,
                   prompted, notCommitVars>>

commit ==
    \/ commit_git_commit
    \/ commit_git_log
    \/ commit_symbolic_ref
    \/ commit_checkout_target
    \/ commit_cherry_pick
    \/ commit_status
    \/ commit_prompt
    \/ commit_checkout_theirs
    \/ commit_add
    \/ commit_commit_no_edit
    \/ commit_push_resolved
    \/ commit_push
    \/ commit_restore
----------------------------------------------------------------------------
(* Claims about the commit handler *)

Ran(argv, rc) == \E i \in DOMAIN gitlog : gitlog[i] = [argv |-> argv, rc |-> rc]
Issued(argv) == \E i \in DOMAIN gitlog : gitlog[i].argv = argv
\* the first target was pushed and the checkout of the second one failed
SecondCheckoutFailed ==
    /\ current_branch # "none"
    /\ Ran(<<"git", "push", "origin", dev_branch>>, 0)
    /\ Ran(<<"git", "checkout", pre_branch>>, 1)

\* C1: when the first target (<branch>-dev) was checked out, cherry-picked and
\* pushed and the checkout of the second (<branch>-pre-merge) fails, the
\* handler has reported failure and returned, the failed checkout is the last
\* git invocation of the run (so nothing is cherry-picked onto or pushed to the
\* second target, and nothing undoes the first push), and the first target
\* stays pushed.
C1_PartialFailureStops ==
    SecondCheckoutFailed =>
        /\ outcome = "failed"
        /\ pc = "done"
        /\ echo[Len(echo)] = "branch does not exist"
        /\ gitlog[Len(gitlog)] = [argv |-> <<"git", "checkout", pre_branch>>, rc |-> 1]
        /\ ~Issued(<<"git", "push", "origin", pre_branch>>)
        /\ Cardinality({i \in DOMAIN gitlog : gitlog[i].argv[2] = "cherry-pick"}) = 1
        /\ dev_branch \in pushed
C1_Witness ==
    /\ SecondCheckoutFailed
    /\ pc = "done"
    /\ Ran(<<"git", "cherry-pick", last_commit_hash>>, 0)

\* C2 (as claimed): a run never ends on a conflicted cherry-pick (git
\* cherry-pick exited non-zero leaving unmerged paths) without the user
\* having been prompted for that target.
C2_ConflictAlwaysPrompts == pc = "done" => conflict \subseteq prompted

\* C3 (as claimed): no run of the handler ends by an uncaught exception from a
\* git invocation that exited non-zero.
C3_NoCrash == outcome # "crashed"

\* C4: the final report is reached only when both targets were pushed in the
\* run (each by a `git push origin <target>` that exited 0, on the clean or on
\* the resolved path) and the last git invocation is a checkout of the original
\* branch that exited 0.
C4_SuccessMeansAllPushed ==
    outcome = "success" =>
        /\ pushed = {dev_branch, pre_branch}
        /\ \A t \in {dev_branch, pre_branch} : Ran(<<"git", "push", "origin", t>>, 0)
        /\ gitlog[Len(gitlog)] = [argv |-> <<"git", "checkout", current_branch>>, rc |-> 0]
        /\ echo[Len(echo)] = "Cherry-pick complete"
C4_Witness ==
    /\ outcome = "success"
    /\ prompted = {pre_branch}
    /\ pushed = {dev_branch, pre_branch}

----------------------------------------------------------------------------
(* The config file and the handlers of the registry commands. A handler is *)
(* an operator from the file on disk, the command line and what the        *)
(* environment answers (git's exit code and output, the outcome of the     *)
(* file write) to what the run leaves behind: the file, the git            *)
(* invocations made, the messages printed, the URL handed to the browser.  *)

\* CONFIG_PATH on disk: "absent"; "ok", holding the JSON of repos; "partial",
\* a proper prefix, possibly empty, of a JSON text: what open(..., 'w')
\* followed by an incomplete write leaves.
NoFile == [state |-> "absent", repos |-> <<>>]
Stored(repos) == [state |-> "ok", repos |-> repos]
Partial == [state |-> "partial", repos |-> <<>>]

\* json.load raises on a partial text: the error is printed, {"repos": {}} used
load_config(f) ==
    [repos |-> IF f.state = "ok" THEN f.repos ELSE <<>>,
     say |-> IF f.state = "partial" THEN <<"Error loading config">> ELSE <<>>]

\* The ways save_config can go: mkdir fails (only when the directory may be
\* missing), open(CONFIG_PATH, 'w') fails, or json.dump / the closing flush
\* fails after open has truncated the file.
SaveOutcomes(f) ==
    {"saved", "open_failed", "write_failed"}
    \cup (IF f.state = "absent" THEN {"mkdir_failed"} ELSE {})
save_config(f, data, io) ==
    IF io = "saved"
    THEN [file |-> Stored(data), say |-> <<"Config saved">>]
    ELSE [file |-> IF io \in {"mkdir_failed", "open_failed"} THEN f ELSE Partial,
          say |-> <<"Error saving config">>]

\* What `git config --get remote.origin.url` answers in the current directory
REMOTE_ARGV == <<"git", "config", "--get", "remote.origin.url">>
NoEnv == [rc |-> 0, out |-> None]
get_current_git_repo(env) ==
    IF env.rc # 0 THEN None
    ELSE IF strip(env.out) # <<>> THEN strip(env.out) ELSE None
RemoteCall(env) == <<[argv |-> REMOTE_ARGV, rc |-> env.rc]>>

\* lines 82-86
resolve_found(env, found) ==
    IF Falsy(found)
    THEN [alias |-> None, git |-> RemoteCall(env), say |-> <<"Repo not found in config.">>]
    ELSE [alias |-> found, git |-> RemoteCall(env), say |-> <<>>]
\* lines 79-86
resolve_remote(repos, env, repo_url) ==
    IF Falsy(repo_url)
    THEN [alias |-> None, git |-> RemoteCall(env),
          say |-> <<"Not in a Git repo or can't detect remote.">>]
    ELSE resolve_found(env, find_alias_by_repo_url(repos, repo_url))
resolve_alias_from_context(repos, alias, env) ==
    IF ~Falsy(alias) THEN [alias |-> alias, git |-> <<>>, say |-> <<>>]
    ELSE resolve_remote(repos, env, get_current_git_repo(env))

Entry(repos, alias) == repos[IndexOf(repos, alias)]
\* what a handler leaves behind when it only resolved the alias, r
Resolved(f, config, r) ==
    [file |-> f, git |-> r.git, say |-> config.say \o r.say, opened |-> None,
     alias |-> r.alias]

\* lines 99-107
view_resolved(config, r, base) ==
    IF Falsy(r.alias) THEN base
    ELSE IF HasAlias(config.repos, r.alias)
         THEN [base EXCEPT !.opened = Entry(config.repos, r.alias).url,
                           !.say = @ \o <<"Opening">>]
         ELSE [base EXCEPT !.say = @ \o <<"Alias not found.">>]
view_loaded(f, config, r) == view_resolved(config, r, Resolved(f, config, r))
view_config(f, config, alias, env) ==
    view_loaded(f, config, resolve_alias_from_context(config.repos, alias, env))
view(f, alias, env) == view_config(f, load_config(f), alias, env)

\* lines 255-259
checkout_branch(base, branch_name, rc) ==
    [base EXCEPT
        !.git = @ \o <<[argv |-> <<"git", "checkout", branch_name>>, rc |-> rc]>>,
        !.say = @ \o <<IF rc = 0 THEN "Switched to branch" ELSE "Failed to checkout branch">>]
\* checkout_entry without the test of line 251
checkout_entry_unguarded(base, branch_name, rc) == checkout_branch(base, branch_name, rc)
\* lines 250-259
checkout_entry(base, branch_name, rc) ==
    IF branch_name = NoBranch \/ branch_name = ""
    THEN [base EXCEPT !.say = @ \o <<"No branch configured">>]
    ELSE checkout_branch(base, branch_name, rc)
\* lines 242-259
checkout_resolved(config, r, base, branch_key, rc) ==
    IF Falsy(r.alias) THEN base
    ELSE IF ~HasAlias(config.repos, r.alias)
         THEN [base EXCEPT !.say = @ \o <<"Alias not found.">>]
         ELSE checkout_entry(base,
                             BranchGet(Entry(config.repos, r.alias).branches, branch_key),
                             rc)
checkout_loaded(f, config, r, branch_key, rc) ==
    checkout_resolved(config, r, Resolved(f, config, r), branch_key, rc)
checkout_config(f, config, branch_key, alias, env, rc) ==
    checkout_loaded(f, config, resolve_alias_from_context(config.repos, alias, env),
                    branch_key, rc)
checkout(f, branch_key, alias, env, rc) ==
    checkout_config(f, load_config(f), branch_key, alias, env, rc)

\* lines 179-180
add_saved(config, git, entry, saved) ==
    [file |-> saved.file, git |-> git, opened |-> None, alias |-> entry.alias,
     say |-> config.say \o saved.say \o <<"Added repo">>]
\* lines 168-180
add_store(f, config, git, entry, io) ==
    add_saved(config, git, entry, save_config(f, Put(config.repos, entry), io))
\* lines 164-180, url the option or else the remote of the current directory
add_url(f, config, git, alias, url, branches, io) ==
    IF Falsy(url)
    THEN [file |-> f, git |-> git, opened |-> None, alias |-> alias,
          say |-> config.say \o <<"No URL provided and not in a Git repo.">>]
    ELSE add_store(f, config, git, entry_for(alias, normalize_repo_url(url), branches), io)
add(f, alias, url, prod, pre, dev, env, io) ==
    add_url(f, load_config(f),
            IF Falsy(url) THEN RemoteCall(env) ELSE <<>>,
            alias,
            IF Falsy(url) THEN get_current_git_repo(env) ELSE url,
            BranchesOf(prod, pre, dev), io)

\* lines 201-206
remove_saved(config, alias, saved) ==
    [file |-> saved.file, git |-> <<>>, opened |-> None, alias |-> alias,
     say |-> config.say \o saved.say \o <<"Removed">>]
remove_loaded(f, config, alias, io) ==
    IF HasAlias(config.repos, alias)
    THEN remove_saved(config, alias, save_config(f, Delete(config.repos, alias), io))
    ELSE [file |-> f, git |-> <<>>, opened |-> None, alias |-> alias,
          say |-> config.say \o <<"Alias not found.">>]
remove(f, alias, io) == remove_loaded(f, load_config(f), alias, io)

\* lines 225-230: only the truthy options overwrite a slot
modify_branches(branches, given) ==
    [s \in (DOMAIN branches) \cup (DOMAIN given) |->
        IF s \in DOMAIN given THEN given[s] ELSE branches[s]]
\* lines 232-233
modify_saved(base, saved) ==
    [base EXCEPT !.file = saved.file, !.say = @ \o saved.say \o <<"Updated branches">>]
\* lines 225-233
modify_entry(f, config, base, repo, given, io) ==
    modify_saved(base,
                 save_config(f,
                             Put(config.repos,
                                 [repo EXCEPT !.branches = modify_branches(@, given)]),
                             io))
\* lines 217-233
modify_resolved(f, config, r, base, given, io) ==
    IF Falsy(r.alias) THEN base
    ELSE IF ~HasAlias(config.repos, r.alias)
         THEN [base EXCEPT !.say = @ \o <<"Alias not found.">>]
         ELSE modify_entry(f, config, base, Entry(config.repos, r.alias), given, io)
modify_loaded(f, config, r, given, io) ==
    modify_resolved(f, config, r, Resolved(f, config, r), given, io)
modify_config(f, config, alias, given, env, io) ==
    modify_loaded(f, config, resolve_alias_from_context(config.repos, alias, env),
                  given, io)
modify(f, alias, prod, pre, dev, env, io) ==
    modify_config(f, load_config(f), alias, BranchesOf(prod, pre, dev), env, io)

----------------------------------------------------------------------------
(* Spec: the registry commands, run one after the other from an absent     *)
(* config file. Each step is one whole invocation. prior is the file as    *)
(* the invocation found it; cmd, args and result describe the invocation.  *)

u_ssh == GIT_AT \o h_github \o <<":">> \o p_org_repo \o DOT_GIT
u_https_upper == HTTPS_PREFIX \o h_github \o <<"/">> \o p_Org_Repo
u_https_my == HTTPS_PREFIX \o h_github \o <<"/">> \o p_my_org

\* command lines tried
AddAliases == {None, a_foo}
AliasArgs == {None, a_foo, a_bar}
UrlArgs == {None, u_ssh, u_https_my}
AddOptions == {<<NoBranch, "", "develop">>}
ModifyOptions == {<<"release", NoBranch, "">>}
\* what the remote query may answer: a non-zero exit, or a line of output
RemoteOutputs == {<<"\n">>, u_https_upper \o <<"\n">>}
GitRemoteEnvs == {[rc |-> 1, out |-> <<>>]} \cup {[rc |-> 0, out |-> o] : o \in RemoteOutputs}
\* the remote is queried only when no alias (no url, for add) is given
EnvsFor(given) == IF Falsy(given) THEN GitRemoteEnvs ELSE {NoEnv}

NoArgs ==
    [alias |-> None, slot |-> "none", url |-> None,
     opts |-> <<NoBranch, NoBranch, NoBranch>>, env |-> NoEnv, rc |-> 0, io |-> "saved"]
NoResult == [git |-> <<>>, say |-> <<>>, opened |-> None, alias |-> None]

Ran_(c, a, r) ==
    /\ file' = r.file
    /\ prior' = file
    /\ cmd' = c
    /\ args' = a
    /\ result' = [git |-> r.git, say |-> r.say, opened |-> r.opened, alias |-> r.alias]
    /\ UNCHANGED <<normVars, commitVars, raceVars>>
\* An answer of the environment is drawn only when the run asks for it:
\* r0 is the run under the default answer, r the run under the answer drawn.
RanAsking(c, a, r, r0, isDefault) ==
    /\ isDefault \/ r # r0
    /\ Ran_(c, a, r)

Run_view ==
    \E alias \in AliasArgs : \E env \in EnvsFor(alias) :
        Ran_("view", [NoArgs EXCEPT !.alias = alias, !.env = env], view(file, alias, env))

Run_checkout ==
    \E branch_key \in Slots, alias \in AliasArgs, rc \in ExitCodes :
        \E env \in EnvsFor(alias) :
            RanAsking("checkout",
                      [NoArgs EXCEPT !.alias = alias, !.slot = branch_key, !.env = env,
                                     !.rc = rc],
                      checkout(file, branch_key, alias, env, rc),
                      checkout(file, branch_key, alias, env, 0),
                      rc = 0)

Run_add ==
    \E alias \in AddAliases, url \in UrlArgs, o \in AddOptions :
        \E env \in EnvsFor(url), io \in SaveOutcomes(file) :
            RanAsking("add",
                      [NoArgs EXCEPT !.alias = alias, !.url = url, !.opts = o,
                                     !.env = env, !.io = io],
                      add(file, alias, url, o[1], o[2], o[3], env, io),
                      add(file, alias, url, o[1], o[2], o[3], env, "saved"),
                      io = "saved")

Run_remove ==
    \E alias \in AliasArgs \ {None}, io \in SaveOutcomes(file) :
        RanAsking("remove", [NoArgs EXCEPT !.alias = alias, !.io = io],
                  remove(file, alias, io), remove(file, alias, "saved"), io = "saved")

Run_modify ==
    \E alias \in AliasArgs, o \in ModifyOptions :
        \E env \in EnvsFor(alias), io \in SaveOutcomes(file) :
            RanAsking("modify",
                      [NoArgs EXCEPT !.alias = alias, !.opts = o, !.env = env, !.io = io],
                      modify(file, alias, o[1], o[2], o[3], env, io),
                      modify(file, alias, o[1], o[2], o[3], env, "saved"),
                      io = "saved")

Next == Run_view \/ Run_checkout \/ Run_add \/ Run_remove \/ Run_modify

----------------------------------------------------------------------------
(* Claims about the registry commands *)

\* the registry the last run loaded
LoadedRepos == IF prior.state = "ok" THEN prior.repos ELSE <<>>
Said(msg) == result.say # <<>> /\ result.say[Len(result.say)] = msg
\* the last run was a checkout whose resolved alias has an entry without a
\* branch for the slot asked
SlotMissing ==
    /\ cmd = "checkout"
    /\ ~Falsy(result.alias)
    /\ HasAlias(LoadedRepos, result.alias)
    /\ args.slot \notin DOMAIN Entry(LoadedRepos, result.alias).branches

\* C5 (as claimed): a checkout of a slot the resolved entry does not configure
\* reports the configuration error and makes no git invocation of any kind,
\* whether the alias was given or inferred.
C5_MissingSlotNoGit == SlotMissing => Said("No branch configured") /\ result.git = <<>>

\* C5 (amended): a checkout of a slot the resolved entry does not configure
\* reports the configuration error and never invokes git checkout; with the
\* alias given it invokes git not at all, and with the alias inferred its one
\* git invocation is the successful remote query that inferred the alias.
C5_MissingSlotNoCheckout ==
    SlotMissing =>
        /\ Said("No branch configured")
        /\ file = prior
        /\ \A i \in DOMAIN result.git : result.git[i].argv[2] # "checkout"
        /\ result.git = IF Falsy(args.alias)
                        THEN <<[argv |-> REMOTE_ARGV, rc |-> 0]>>
                        ELSE <<>>
C5_Witness == SlotMissing /\ Falsy(args.alias) /\ Said("No branch configured")
C5_WitnessExplicit == SlotMissing /\ args.alias = a_foo /\ result.git = <<>>

\* the entries of the loaded registry whose stored url has the key of the
\* remote the environment answered
RemoteAnswered == args.env.rc = 0 /\ strip(args.env.out) # <<>>
RemoteMatches ==
    {i \in DOMAIN LoadedRepos :
        normalize_repo_url(LoadedRepos[i].url) = normalize_repo_url(strip(args.env.out))}
FirstOf(S) == CHOOSE i \in S : \A j \in S : i <= j

C6_WitnessNoMatch ==
    /\ cmd = "view"
    /\ Falsy(args.alias)
    /\ RemoteAnswered
    /\ LoadedRepos # <<>>
    /\ result.opened = None

\* C9 (as claimed): when save_config fails, the failure is reported and the
\* config file holds what it held before the save.
C9_FailedSaveKeepsFile ==
    (\E i \in DOMAIN result.say : result.say[i] = "Error saving config") => file = prior

----------------------------------------------------------------------------
(* SpecRace: two invocations of mutating commands share the config file.   *)
(* An invocation reads the file once (load_config), computes the new       *)
(* registry in memory, and save_config then opens the file for writing,    *)
(* which truncates it, and writes the whole JSON text. No lock is taken,   *)
(* so the steps of the two invocations interleave freely. prior is the     *)
(* file before either ran; events is the order of the file operations.     *)

Procs == {1, 2}
e_foo == [alias |-> a_foo, url |-> HTTPS_PREFIX \o normalize_repo_url(u_ssh),
          branches |-> BranchesOf(NoBranch, NoBranch, "develop")]
e_bar == [alias |-> a_bar, url |-> HTTPS_PREFIX \o normalize_repo_url(u_https_my),
          branches |-> BranchesOf(NoBranch, NoBranch, "develop")]
\* files the commands can have left behind
RaceFiles == {NoFile, Stored(<<e_foo>>), Stored(<<e_foo, e_bar>>)}
\* command lines tried, each with its alias given
RaceCommands ==
    {[name |-> "add", alias |-> a, url |-> u_ssh, given |-> BranchesOf("main", NoBranch, NoBranch)]
        : a \in {a_foo, a_bar}}
    \cup {[name |-> "remove", alias |-> a, url |-> None, given |-> <<>>] : a \in {a_foo, a_bar}}
    \cup {[name |-> "modify", alias |-> a, url |-> None,
           given |-> BranchesOf("release", NoBranch, NoBranch)] : a \in {a_foo, a_bar}}
NoCommand == [name |-> "none", alias |-> None, url |-> None, given |-> <<>>]
FinalMessage(name) ==
    IF name = "add" THEN "Added repo" ELSE IF name = "remove" THEN "Removed"
    ELSE "Updated branches"

RaceInit ==
    /\ file \in RaceFiles
    /\ prior = file
    /\ rpc = [p \in Procs |-> "start"]
    /\ rcmd = [p \in Procs |-> NoCommand]
    /\ rmem = [p \in Procs |-> <<>>]
    /\ rsay = [p \in Procs |-> <<>>]
    /\ events = <<>>
    /\ cmd = "none"
    /\ args = NoArgs
    /\ result = NoResult
    /\ nphase = "idle" /\ nraw = None /\ nalias = None /\ nkey = None
    /\ nconfig = <<>> /\ nfound = None
    /\ pc = "idle" /\ gitlog = <<>> /\ echo = <<>> /\ outcome = "none"
    /\ last_commit_hash = "none" /\ current_branch = "none" /\ target_idx = 0
    /\ pushed = {} /\ conflict = {} /\ prompted = {}

\* the registry a command holds in memory when it calls save_config: add lines
\* 168-177, remove line 202, modify lines 225-230
race_data(c, repos) ==
    IF c.name = "add"
    THEN Put(repos, entry_for(c.alias, normalize_repo_url(c.url), c.given))
    ELSE IF c.name = "remove" THEN Delete(repos, c.alias)
    ELSE Put(repos, [Entry(repos, c.alias) EXCEPT !.branches = modify_branches(@, c.given)])

\* the handler up to its call of save_config; remove and modify return early
\* when the alias is not in the registry loaded
race_loaded(p, c, config) ==
    /\ rcmd' = [rcmd EXCEPT ![p] = c]
    /\ events' = Append(events, <<p, "load">>)
    /\ IF c.name = "add" \/ HasAlias(config.repos, c.alias)
       THEN /\ rmem' = [rmem EXCEPT ![p] = race_data(c, config.repos)]
            /\ rsay' = [rsay EXCEPT ![p] = config.say]
            /\ rpc' = [rpc EXCEPT ![p] = "open"]
       ELSE /\ rsay' = [rsay EXCEPT ![p] = config.say \o <<"Alias not found.">>]
            /\ rpc' = [rpc EXCEPT ![p] = "done"]
            /\ UNCHANGED rmem
race_load(p) ==
    /\ rpc[p] = "start"
    /\ \E c \in RaceCommands : race_loaded(p, c, load_config(file))
    /\ UNCHANGED <<file, prior, cmd, args, result, normVars, commitVars>>

\* save_config, lines 28-29: mkdir and open(CONFIG_PATH, 'w')
race_open(p) ==
    /\ rpc[p] = "open"
    /\ \E io \in {"opened", "open_failed"}
               \cup (IF file.state = "absent" THEN {"mkdir_failed"} ELSE {}) :
        IF io = "opened"
        THEN /\ file' = Partial
             /\ events' = Append(events, <<p, "open">>)
             /\ rpc' = [rpc EXCEPT ![p] = "write"]
             /\ UNCHANGED rsay
        ELSE /\ rsay' = [rsay EXCEPT ![p] = @ \o <<"Error saving config",
                                                    FinalMessage(rcmd[p].name)>>]
             /\ rpc' = [rpc EXCEPT ![p] = "done"]
             /\ UNCHANGED <<file, events>>
    /\ UNCHANGED <<rcmd, rmem, prior, cmd, args, result, normVars, commitVars>>

\* save_config, lines 30-33: the text is written from offset 0 of the file as
\* it is now. Written over a file the other invocation filled since this one
\* opened it, a shorter text leaves the tail of the other's text behind.
race_write(p) ==
    /\ rpc[p] = "write"
    /\ \E io \in {"written", "write_failed"}
               \cup (IF file.state = "ok" THEN {"written_over_longer"} ELSE {}) :
        /\ file' = IF io = "written" THEN Stored(rmem[p]) ELSE Partial
        /\ events' = Append(events, <<p, io>>)
        /\ rsay' = [rsay EXCEPT ![p] =
                       @ \o <<IF io = "write_failed" THEN "Error saving config"
                              ELSE "Config saved",
                              FinalMessage(rcmd[p].name)>>]
    /\ rpc' = [rpc EXCEPT ![p] = "done"]
    /\ UNCHANGED <<rcmd, rmem, prior, cmd, args, result, normVars, commitVars>>

RaceNext == \E p \in Procs : race_load(p) \/ race_open(p) \/ race_write(p)

\* Claims about the race

\* alias's entry in a registry, or <<>> when it has none
EntryOrNone(repos, alias) == IF HasAlias(repos, alias) THEN Entry(repos, alias) ELSE <<>>
PriorRepos == IF prior.state = "ok" THEN prior.repos ELSE <<>>
\* both invocations loaded before either saved, then p saved, then q saved
LoadedThenSaved(p, q) ==
    /\ Len(events) = 6
    /\ {events[1], events[2]} = {<<p, "load">>, <<q, "load">>}
    /\ SubSeq(events, 3, 6) = <<<<p, "open">>, <<p, "written">>, <<q, "open">>,
                                <<q, "written">>>>
\* the change command c makes to its alias is in repos
ChangeIn(c, repos) ==
    IF c.name = "remove" THEN ~HasAlias(repos, c.alias)
    ELSE /\ HasAlias(repos, c.alias)
         /\ "prod" \in DOMAIN Entry(repos, c.alias).branches
         /\ Entry(repos, c.alias).branches["prod"] =
                (IF c.name = "add" THEN "main" ELSE "release")
Errors(p) == {i \in DOMAIN rsay[p] : rsay[p][i] \in {"Error saving config",
                                                     "Error loading config"}}

\* C10: when two mutating invocations on different aliases both load the file
\* before either saves and then save one after the other, the file holds the
\* second writer's registry: its own change applied to the file as loaded,
\* every other alias, the first writer's included, as it was before either
\* ran, and neither invocation has reported an error.
C10_LostUpdate ==
    \A p, q \in Procs :
        (p # q /\ LoadedThenSaved(p, q) /\ rcmd[p].alias # rcmd[q].alias) =>
            /\ file = Stored(rmem[q])
            /\ ChangeIn(rcmd[q], file.repos)
            /\ \A a \in {a_foo, a_bar} \ {rcmd[q].alias} :
                   EntryOrNone(file.repos, a) = EntryOrNone(PriorRepos, a)
            /\ Errors(p) = {} /\ Errors(q) = {}
            /\ rpc = [r \in Procs |-> "done"]
\* the first writer's change was on disk and is gone
C10_Witness ==
    \E p, q \in Procs :
        /\ p # q /\ LoadedThenSaved(p, q) /\ rcmd[p].alias # rcmd[q].alias
        /\ ChangeIn(rcmd[p], rmem[p])
        /\ ~ChangeIn(rcmd[p], PriorRepos)
        /\ ~ChangeIn(rcmd[p], file.repos)
        /\ ChangeIn(rcmd[q], file.repos)

----------------------------------------------------------------------------
(* Specifications *)

CliIdle ==
    /\ file = NoFile
    /\ prior = NoFile
    /\ cmd = "none"
    /\ args = NoArgs
    /\ result = NoResult
RaceIdle ==
    /\ rpc = <<>>
    /\ rcmd = <<>>
    /\ rmem = <<>>
    /\ rsay = <<>>
    /\ events = <<>>

CommitIdle ==
    /\ pc = "idle"
    /\ gitlog = <<>>
    /\ echo = <<>>
    /\ outcome = "none"
    /\ last_commit_hash = "none"
    /\ current_branch = "none"
    /\ target_idx = 0
    /\ pushed = {}
    /\ conflict = {}
    /\ prompted = {}

NormIdle ==
    /\ nphase = "idle"
    /\ nraw = None
    /\ nalias = None
    /\ nkey = None
    /\ nconfig = <<>>
    /\ nfound = None

NormInit ==
    /\ nphase = "input"
    /\ nraw \in RawUrls
    /\ nalias \in {None, a_foo}
    /\ nkey = None
    /\ nconfig \in NormRegistries
    /\ nfound = None
    /\ CommitIdle /\ CliIdle /\ RaceIdle

CommitInit ==
    /\ pc = "git_commit"
    /\ gitlog = <<>>
    /\ echo = <<>>
    /\ outcome = "running"
    /\ last_commit_hash = "none"
    /\ current_branch = "none"
    /\ target_idx = 0
    /\ pushed = {}
    /\ conflict = {}
    /\ prompted = {}
    /\ NormIdle /\ CliIdle /\ RaceIdle

SpecNorm == NormInit /\ [][NormNext]_vars

SpecCommit == CommitInit /\ [][commit]_vars

SpecRace == RaceInit /\ [][RaceNext]_vars

Init == CliIdle /\ NormIdle /\ CommitIdle /\ RaceIdle
Spec == Init /\ [][Next]_vars

====
